---- MODULE Spec2Model ----
(***************************************************************************)
(* A model of the e-ink sidebar pipeline of simaadleyba/e-ink:             *)
(*   - ManulProcessor._resize_to_sidebar  (the Geometry Fitter)            *)
(*   - ManulProcessor._render_metadata    (the Metadata Text Renderer)     *)
(*   - render_utils.wrap_text             (font-metric text wrapping)      *)
(* Sizes are pairs <<width, height>>.  A Python exception is a record      *)
(* whose kind names the exception class.  Python floats are IEEE-754       *)
(* doubles; the two float expressions of the fitter are computed here      *)
(* bit-exactly with integer arithmetic.                                    *)
(***************************************************************************)
EXTENDS Integers, Naturals, Sequences, FiniteSets, TLC

VARIABLES
    pc,              \* position of the program under study
    sidebar_width,   \* ManulProcessor.sidebar_width   (config sidebar.width)
    display_height,  \* ManulProcessor.display_height  (config display.height)
    image,           \* size <<width, height>> of the image given to the fitter
    fitted,          \* result of _resize_to_sidebar(image)
    refitted,        \* result of _resize_to_sidebar applied to its own output
    font_size,       \* text_config['font_size']
    line_spacing,    \* text_config['line_spacing']
    image_width,     \* the image_width parameter of _render_metadata
    name,            \* the name string (a sequence of characters)
    location,        \* the location string (a sequence of characters)
    description,     \* the description string
    text_image,      \* result of _render_metadata
    wtext,           \* the text given to wrap_text
    max_width,       \* the max_width given to wrap_text
    wlines,          \* result of wrap_text
    disp_width,      \* ManulDisplay.width   (config display.width)
    disp_height,     \* ManulDisplay.height  (config display.height)
    map_image,       \* size of the map image given to _compose_layout
    sidebar_image,   \* size of the sidebar image given to _compose_layout
    canvas,          \* result of _compose_layout
    palette_colors,  \* img_config['palette_colors']
    dithering,       \* img_config['dithering']
    pixels,          \* the pixel values of the image given to the quantizer
    quantized,       \* result of _quantize_to_palette
    photo_mode,      \* mode of the photo given to einkify_manul
    use_clahe,       \* img_config['use_clahe']
    stages,          \* the pipeline stages entered so far, in order
    sidebar,         \* result of einkify_manul
    mode,            \* the command of the run: "refresh" or "rotate"
    force,           \* force_map_refresh (--refresh-map)
    test_mode,       \* ManulDisplay.test_mode
    cache,           \* the map cache file: its state and the map it holds
    next_map,        \* the identity of the next map the API returns
    api_requests,    \* map requests made to the API, all runs together
    run_requests,    \* map requests made to the API in the current run
    map_id,          \* the map fetch_map returned in the current run
    frame_map,       \* the map in the frame composed in the current run
    shown_map,       \* the map in the last frame that was output
    output,          \* where the frame of the current run went
    ret,             \* how the current run ended
    runs,            \* number of runs started
    epd,             \* ManulDisplay.epd: none, created (EPD() built) or ready
    driver_calls,    \* calls made on the e-ink driver in the current run
    files,           \* files the current run saved the frame to
    fetch_env,       \* what the last fetch_map of the run met, None before it
    content_kind,    \* what the downloaded bytes are: svg, html, webp or other
    ffmpeg,          \* what running ffmpeg does: missing, fail or ok
    dwebp,           \* what running dwebp does: missing, fail or ok
    png_ok,          \* whether Pillow can open the converted PNG
    raw_ok,          \* whether Pillow can open the downloaded bytes
    decoded,         \* result of _decode_image_bytes
    retry_attempts,  \* ManulScraper.retry_attempts
    attempts,        \* what each request of _get would meet, in order
    response,        \* result of _get
    manul_urls,      \* the number of URLs in ManulScraper.manul_urls
    picks,           \* what random.choice returns at each iteration
    pages,           \* what trying each URL would end in
    scraped          \* result of get_random_manul

fitVars == <<sidebar_width, display_height, image, fitted, refitted>>
metaVars ==
    <<font_size, line_spacing, image_width, name, location, description, text_image>>
wrapVars == <<wtext, max_width, wlines>>
composeVars == <<disp_width, disp_height, map_image, sidebar_image, canvas>>
quantVars == <<palette_colors, dithering, pixels, quantized>>
pipeVars == <<photo_mode, use_clahe, stages, sidebar>>
cycleVars ==
    <<mode, force, test_mode, cache, next_map, api_requests, run_requests,
      map_id, frame_map, shown_map, output, ret, runs,
      epd, driver_calls, files, fetch_env>>
decodeVars == <<content_kind, ffmpeg, dwebp, png_ok, raw_ok, decoded>>
getVars == <<retry_attempts, attempts, response>>
scrapeVars == <<manul_urls, picks, pages, scraped>>
netVars == <<getVars, scrapeVars>>
extVars == <<composeVars, quantVars, pipeVars, cycleVars, decodeVars, netVars>>
vars == <<pc, fitVars, metaVars, wrapVars, extVars>>

\* Python's None
None == [kind |-> "None"]

-----------------------------------------------------------------------------
(* Bounds of the model *)

MaxSidebar == 22
MaxImgW == 22
MaxImgH == 22
MaxCap == 15
MaxSpacing == 1
MaxImageWidth == 12
MaxLocLen == 2
MaxDescLen == 5
MaxWrapLen == 6
MaxWrapWidth == 4
MaxDispW == 6
MaxDispH == 4
MaxMapW == 3
MaxMapH == 2
MaxSideW == 3
MaxSideH == 6
MaxColors == 3
MaxPixels == 3
MaxPhotoW == 3
MaxPhotoH == 3
MaxPipeSidebar == 4
MaxRuns == 2
MaxAttempts == 3
MaxUrls == 3

-----------------------------------------------------------------------------
(* Integer helpers *)

Abs(x) == IF x < 0 THEN -x ELSE x

Sign(x) == IF x < 0 THEN -1 ELSE IF x = 0 THEN 0 ELSE 1

RECURSIVE GCD(_, _)
GCD(a, b) == IF b = 0 THEN a ELSE GCD(b, a % b)

RECURSIVE IsPow2(_)
IsPow2(x) == IF x = 1 THEN TRUE ELSE IF x % 2 = 1 THEN FALSE ELSE IsPow2(x \div 2)

RECURSIVE Pow2(_)
Pow2(k) == IF k = 0 THEN 1 ELSE 2 * Pow2(k - 1)

\* the exponent E with 2^E <= a/b < 2^(E+1), for a, b > 0
RECURSIVE FloorLog2(_, _)
FloorLog2(a, b) ==
    IF a >= b
    THEN IF a >= 2 * b THEN 1 + FloorLog2(a, 2 * b) ELSE 0
    ELSE FloorLog2(2 * a, b) - 1

\* (x * 2^k) mod b
RECURSIVE Pow2Mod(_, _, _)
Pow2Mod(x, k, b) == IF k = 0 THEN x % b ELSE Pow2Mod((2 * x) % b, k - 1, b)

-----------------------------------------------------------------------------
(* IEEE-754 double arithmetic of  int(h * (a / b))                         *)

\* fraction bits of a double's significand
MantissaBits == 52

\* int(h * (a / b)) for h, a, b > 0: a / b is rounded to the nearest double,
\* the product is rounded again, int() truncates.  When b does not divide
\* h*a the exact value is at least 1/b away from an integer and the result
\* is the floor.  When it does, the result is the quotient n unless a/b was
\* rounded down by more than half the gap between n and the double below it.
PosTruncMulDiv(h, a, b) ==
    LET n == (h * a) \div b IN
    IF (h * a) % b # 0 THEN n
    ELSE IF IsPow2(b \div GCD(a, b)) THEN n
    ELSE LET E == FloorLog2(a, b)
             rem == Pow2Mod(a % b, MantissaBits - E, b)
             F == FloorLog2(n, 1)
         IN IF 2 * rem > b THEN n
            ELSE IF (IF IsPow2(n) THEN 4 ELSE 2) * h * rem > b * Pow2(F - E)
                 THEN n - 1
                 ELSE n

\* mutant: the quotient a // b taken in integers before the product
MutIntDivFirst(h, a, b) ==
    IF b = 0 THEN 0 ELSE Sign(h) * Sign(a) * Sign(b) * (Abs(h) * (Abs(a) \div Abs(b)))

\* mutant: the ratio taken upside down, b / a
MutInvertedRatio(h, a, b) ==
    IF a = 0 THEN 0 ELSE Sign(h) * Sign(a) * Sign(b) * ((Abs(h) * Abs(b)) \div Abs(a))

\* int(h * (a / b)) for integers h, a, b with b # 0; int() truncates toward 0
TruncMulDiv(h, a, b) ==
    IF h = 0 \/ a = 0 THEN 0
    ELSE Sign(h) * Sign(a) * Sign(b) * PosTruncMulDiv(Abs(h), Abs(a), Abs(b))

-----------------------------------------------------------------------------
(* ManulProcessor._resize_to_sidebar *)

\* rows kept free for the text below the photo
TextReserve == 150

Raise(k) == [kind |-> k]

\* mutant: a resize that accepts any size
MutResizeNoCheck(img, size, capped, fit_h) ==
    [kind |-> "ok", size |-> size, capped |-> capped, fitted_height |-> fit_h]

\* PIL.Image.resize: the same size returns a copy; a size below 1 is refused
Resize(img, size, capped, fit_h) ==
    IF size = img \/ (size[1] >= 1 /\ size[2] >= 1)
    THEN [kind |-> "ok", size |-> size, capped |-> capped, fitted_height |-> fit_h]
    ELSE Raise("ValueError")

ResizeToSidebar(img, max_height_arg, sw, dh) ==
    LET max_height == IF max_height_arg = None THEN dh - TextReserve ELSE max_height_arg IN
    IF img[1] = 0 THEN Raise("ZeroDivisionError")
    ELSE LET new_height == TruncMulDiv(img[2], sw, img[1]) IN
         IF new_height > max_height
         THEN IF new_height = 0 THEN Raise("ZeroDivisionError")
              ELSE Resize(img, <<TruncMulDiv(sw, max_height, new_height), max_height>>,
                          TRUE, new_height)
         ELSE Resize(img, <<sw, new_height>>, FALSE, new_height)

-----------------------------------------------------------------------------
(* Specification of the Geometry Fitter *)

MetaIdle ==
    /\ font_size = 0 /\ line_spacing = 0 /\ image_width = 0
    /\ name = <<>> /\ location = <<>> /\ description = <<>> /\ text_image = None

WrapIdle == wtext = <<>> /\ max_width = 0 /\ wlines = None

ComposeIdle ==
    /\ disp_width = 0 /\ disp_height = 0
    /\ map_image = <<0, 0>> /\ sidebar_image = <<0, 0>> /\ canvas = None

QuantIdle ==
    /\ palette_colors = 0 /\ dithering = FALSE /\ pixels = <<>> /\ quantized = None

PipeIdle ==
    /\ photo_mode = "L" /\ use_clahe = "false" /\ stages = <<>> /\ sidebar = None

\* fetch_map returned None
NoMap == 0

NoCache == [state |-> "missing", map |-> NoMap]

CycleIdle ==
    /\ mode = "refresh" /\ force = FALSE /\ test_mode = FALSE
    /\ cache = NoCache /\ next_map = 1
    /\ api_requests = 0 /\ run_requests = 0
    /\ map_id = NoMap /\ frame_map = NoMap /\ shown_map = NoMap
    /\ output = "none" /\ ret = "none" /\ runs = 0
    /\ epd = "none" /\ driver_calls = <<>> /\ files = <<>> /\ fetch_env = None

DecodeIdle ==
    /\ content_kind = "other" /\ ffmpeg = "ok" /\ dwebp = "ok"
    /\ png_ok = TRUE /\ raw_ok = TRUE /\ decoded = None

GetIdle == retry_attempts = 0 /\ attempts = <<>> /\ response = None

ScrapeIdle == manul_urls = 0 /\ picks = <<>> /\ pages = <<>> /\ scraped = None

NetIdle == GetIdle /\ ScrapeIdle

ExtIdle ==
    ComposeIdle /\ QuantIdle /\ PipeIdle /\ CycleIdle /\ DecodeIdle /\ NetIdle

InitFit ==
    /\ pc = "fit"
    /\ sidebar_width \in -1..MaxSidebar
    /\ display_height \in (TextReserve - 1)..(TextReserve + MaxCap)
    /\ image \in (0..MaxImgW) \X (0..MaxImgH)
    /\ fitted = None
    /\ refitted = None
    /\ MetaIdle /\ WrapIdle /\ ExtIdle

\* einkify_manul step 4: image = self._resize_to_sidebar(image)
Fit ==
    /\ pc = "fit"
    /\ fitted' = ResizeToSidebar(image, None, sidebar_width, display_height)
    /\ pc' = "fitted"
    /\ UNCHANGED <<sidebar_width, display_height, image, refitted, metaVars, wrapVars,
                   extVars>>

\* _resize_to_sidebar applied to the image it returned
Refit ==
    /\ pc = "fitted"
    /\ fitted.kind = "ok"
    /\ refitted' = ResizeToSidebar(fitted.size, None, sidebar_width, display_height)
    /\ pc' = "refitted"
    /\ UNCHANGED <<sidebar_width, display_height, image, fitted, metaVars, wrapVars,
                   extVars>>

NextFit == Fit \/ Refit

SpecFit == InitFit /\ [][NextFit]_vars

-----------------------------------------------------------------------------
(* textwrap.wrap(text, width) as _render_metadata calls it: the defaults    *)
(* break_long_words = True and drop_whitespace = True.  A chunk is a        *)
(* span <<start, length>> of the text; a line is a sequence of chunks.      *)

IsSpace(c) == c = " "

\* length of the run of characters of one class (space or not) starting at i
RECURSIVE RunLen(_, _)
RunLen(text, i) ==
    IF i < Len(text) /\ IsSpace(text[i + 1]) = IsSpace(text[i])
    THEN 1 + RunLen(text, i + 1)
    ELSE 1

\* TextWrapper._split: words and the whitespace runs between them
RECURSIVE SplitChunks(_, _)
SplitChunks(text, i) ==
    IF i > Len(text) THEN <<>>
    ELSE <<<<i, RunLen(text, i)>>>> \o SplitChunks(text, i + RunLen(text, i))

\* chunk.strip() == ''
IsBlank(text, chunk) == chunk[2] = 0 \/ IsSpace(text[chunk[1]])

\* the inner loop of _wrap_chunks: chunks are taken while they fit
RECURSIVE FillLine(_, _, _, _)
FillLine(chunks, cur_line, cur_len, width) ==
    IF chunks # <<>> /\ cur_len + Head(chunks)[2] <= width
    THEN FillLine(Tail(chunks), Append(cur_line, Head(chunks)),
                  cur_len + Head(chunks)[2], width)
    ELSE [cur_line |-> cur_line, cur_len |-> cur_len, chunks |-> chunks]

\* TextWrapper._handle_long_word with break_long_words: the head of the word
\* fills what is left of the line, the rest stays for the next lines
HandleLongWord(f, width) ==
    LET space_left == IF width < 1 THEN 1 ELSE width - f.cur_len
        chunk == Head(f.chunks)
    IN [cur_line |-> Append(f.cur_line, <<chunk[1], space_left>>),
        cur_len |-> f.cur_len + space_left,
        chunks |-> <<<<chunk[1] + space_left, chunk[2] - space_left>>>> \o Tail(f.chunks)]

\* TextWrapper._wrap_chunks, one line per recursion
RECURSIVE WrapChunks(_, _, _, _)
WrapChunks(text, chunks, lines, width) ==
    IF chunks = <<>> THEN lines
    ELSE LET c1 == IF IsBlank(text, Head(chunks)) /\ lines # <<>>
                   THEN Tail(chunks) ELSE chunks
             f == FillLine(c1, <<>>, 0, width)
             g == IF f.chunks # <<>> /\ Head(f.chunks)[2] > width
                  THEN HandleLongWord(f, width) ELSE f
             cur == IF g.cur_line # <<>> /\ IsBlank(text, g.cur_line[Len(g.cur_line)])
                    THEN SubSeq(g.cur_line, 1, Len(g.cur_line) - 1)
                    ELSE g.cur_line
         IN WrapChunks(text, g.chunks, IF cur # <<>> THEN Append(lines, cur) ELSE lines, width)

\* textwrap.wrap: a width <= 0 is refused, otherwise the lines
Wrap(text, width) ==
    IF width <= 0 THEN Raise("ValueError")
    ELSE [kind |-> "ok", lines |-> WrapChunks(text, SplitChunks(text, 1), <<>>, width)]

-----------------------------------------------------------------------------
(* ManulProcessor._render_metadata *)

\* the fixed height of the canvas the text is drawn on
text_height == 150

\* y of the first line
TopPadding == 5

\* rows kept below the last line by the crop
BottomPadding == 5

\* extra rows below the name line
NameGap == 2

\* the line caps of the slices [:2] and [:4]
MaxLocationLines == 2
MaxDescriptionLines == 4

Unknown == <<"U", "n", "k", "n", "o", "w", "n">>

LocationPrefix == <<"L", "o", "c", "a", "t", "i", "o", "n", ":", " ">>

\* lines[:n]
Take(lines, n) == SubSeq(lines, 1, IF Len(lines) < n THEN Len(lines) ELSE n)

\* mutant: the slice lets one more line through
MutCapPlusOne(text, img_w, fs, cap) ==
    IF fs \div 2 = 0 THEN Raise("ZeroDivisionError")
    ELSE LET w == Wrap(text, img_w \div (fs \div 2)) IN
         IF w.kind # "ok" THEN w
         ELSE [kind |-> "ok", text |-> text, lines |-> Take(w.lines, cap + 1)]

\* char_width = image_width // (font_size // 2); wrap(text, width=char_width)[:cap]
WrapAndCap(text, img_w, fs, cap) ==
    IF fs \div 2 = 0 THEN Raise("ZeroDivisionError")
    ELSE LET w == Wrap(text, img_w \div (fs \div 2)) IN
         IF w.kind # "ok" THEN w
         ELSE [kind |-> "ok", text |-> text, lines |-> Take(w.lines, cap)]

NoLines == [kind |-> "ok", text |-> <<>>, lines |-> <<>>]

\* DejaVuSansMono.ttf: every glyph advances 1233 of the 2048 units of the em
AdvanceUnits == 1233
UnitsPerEm == 2048

\* the advance in pixels of one character of the font loaded at size fs,
\* rounded to whole pixels
FontAdvance(fs) == (2 * fs * AdvanceUnits + UnitsPerEm) \div (2 * UnitsPerEm)

\* "Crop to actual used height": only when y_position < text_height
CanvasHeight(y_position) ==
    IF y_position < text_height THEN y_position + BottomPadding ELSE text_height

RenderMetadata(nm, loc, desc, img_w, fs, ls) ==
    LET y1 == TopPadding + fs + ls + NameGap
        locl == IF loc # <<>> /\ loc # Unknown
                THEN WrapAndCap(LocationPrefix \o loc, img_w, fs, MaxLocationLines)
                ELSE NoLines
    IN IF locl.kind # "ok" THEN locl
       ELSE LET y2 == y1 + Len(locl.lines) * (fs + ls)
                descl == IF desc # <<>>
                         THEN WrapAndCap(desc, img_w, fs, MaxDescriptionLines)
                         ELSE NoLines
            IN IF descl.kind # "ok" THEN descl
               ELSE LET y3 == y2 + Len(descl.lines) * (fs + ls) IN
                    [kind |-> "ok",
                     size |-> <<img_w, CanvasHeight(y3)>>,
                     y_position |-> y3,
                     name_lines |-> <<nm>>,
                     location_text |-> locl.text,
                     location_lines |-> locl.lines,
                     description_text |-> descl.text,
                     description_lines |-> descl.lines]

-----------------------------------------------------------------------------
(* Specification of the Metadata Text Renderer *)

Alphabet == {"a", " "}

Texts(n) == UNION {[1..k -> Alphabet] : k \in 0..n}

FontSizes == {1, 2, 22, 144}

Names == {<<>>, <<"T", "o", "m">>}

\* narrow canvases, and the sidebar width of the default configuration
ImageWidths == (0..MaxImageWidth) \cup {240}

FitIdle ==
    /\ sidebar_width = 0 /\ display_height = 0 /\ image = <<0, 0>>
    /\ fitted = None /\ refitted = None

InitMeta ==
    /\ pc = "render"
    /\ font_size \in FontSizes
    /\ line_spacing \in 0..MaxSpacing
    /\ image_width \in ImageWidths
    /\ name \in Names
    /\ location \in Texts(MaxLocLen) \cup {Unknown}
    /\ description \in Texts(MaxDescLen)
    /\ text_image = None
    /\ FitIdle /\ WrapIdle /\ ExtIdle

\* einkify_manul step 5: text_image = self._render_metadata(...)
Render ==
    /\ pc = "render"
    /\ text_image' = RenderMetadata(name, location, description, image_width,
                                    font_size, line_spacing)
    /\ pc' = "rendered"
    /\ UNCHANGED <<font_size, line_spacing, image_width, name, location, description,
                   fitVars, wrapVars, extVars>>

NextMeta == Render

SpecMeta == InitMeta /\ [][NextMeta]_vars

-----------------------------------------------------------------------------
(* render_utils.wrap_text *)

\* str.split(): the maximal runs of non-whitespace characters
RECURSIVE SplitWords(_, _, _)
SplitWords(text, i, word) ==
    IF i > Len(text) THEN (IF word = <<>> THEN <<>> ELSE <<word>>)
    ELSE IF IsSpace(text[i])
         THEN (IF word = <<>> THEN <<>> ELSE <<word>>) \o SplitWords(text, i + 1, <<>>)
         ELSE SplitWords(text, i + 1, Append(word, text[i]))

\* " ".join(words)
RECURSIVE Join(_)
Join(words) ==
    IF words = <<>> THEN <<>>
    ELSE IF Len(words) = 1 THEN words[1]
    ELSE words[1] \o <<" ">> \o Join(Tail(words))

\* the advance of one glyph of the font, in pixels
Advance(c) == IF c = "W" THEN 2 ELSE 1

\* font.getlength(s): the sum of the advances
RECURSIVE GetLength(_)
GetLength(str) == IF str = <<>> THEN 0 ELSE Advance(Head(str)) + GetLength(Tail(str))

\* mutant: only the new word is measured, not the candidate line
MutFitsWordOnly(current, word, maxw) == GetLength(word) <= maxw

\* font.getlength(candidate) <= max_width
Fits(current, word, maxw) ==
    GetLength(IF current # <<>> THEN Join(Append(current, word)) ELSE word) <= maxw

\* the for loop of wrap_text and the flush after it
RECURSIVE WrapLoop(_, _, _, _)
WrapLoop(words, lines, current, maxw) ==
    IF words = <<>>
    THEN (IF current # <<>> THEN Append(lines, Join(current)) ELSE lines)
    ELSE IF Fits(current, Head(words), maxw)
         THEN WrapLoop(Tail(words), lines, Append(current, Head(words)), maxw)
         ELSE WrapLoop(Tail(words),
                       IF current # <<>> THEN Append(lines, Join(current)) ELSE lines,
                       <<Head(words)>>, maxw)

\* the flush after the loop is missing: the last line is lost
MutWrapNoFlush(text, maxw) ==
    LET lines == WrapLoop(SplitWords(text, 1, <<>>), <<>>, <<>>, maxw) IN
    IF Len(lines) <= 1 THEN <<<<>>>> ELSE SubSeq(lines, 1, Len(lines) - 1)

WrapText(text, maxw) ==
    LET lines == WrapLoop(SplitWords(text, 1, <<>>), <<>>, <<>>, maxw) IN
    IF lines = <<>> THEN <<<<>>>> ELSE lines

-----------------------------------------------------------------------------
(* Specification of wrap_text *)

WrapAlphabet == {"a", "W", " "}

WrapTexts(n) == UNION {[1..k -> WrapAlphabet] : k \in 0..n}

InitWrap ==
    /\ pc = "wrap"
    /\ wtext \in WrapTexts(MaxWrapLen)
    /\ max_width \in 0..MaxWrapWidth
    /\ wlines = None
    /\ FitIdle /\ MetaIdle /\ ExtIdle

\* lines = wrap_text(text, font, max_width)
DoWrapText ==
    /\ pc = "wrap"
    /\ wlines' = WrapText(wtext, max_width)
    /\ pc' = "wrapped"
    /\ UNCHANGED <<wtext, max_width, fitVars, metaVars, extVars>>

NextWrap == DoWrapText

SpecWrap == InitWrap /\ [][NextWrap]_vars

-----------------------------------------------------------------------------
(* ManulDisplay._compose_layout.  The canvas is described by what was put  *)
(* on it: the map's box, the columns and rows the divider line paints, and *)
(* the part of the sidebar that is pasted and where.                       *)

\* draw.line(..., width=2)
DividerWidth == 2

\* ROUND_UP and ROUND_DOWN of Pillow's Draw.c, applied to n / 2
RoundUp2(n) == Sign(n) * ((Abs(n) + 1) \div 2)
RoundDown2(n) == Sign(n) * (Abs(n) \div 2)

\* a vertical line painted from the bottom end to the top end
MutLineUpward(x0, y0, y1, w) ==
    LET ratio_y == Sign(y0 - y1)
        dxmin == RoundDown2((w - 1) * ratio_y)
        dxmax == RoundUp2((w - 1) * ratio_y)
    IN  [cols |-> {x \in (x0 - 1 - Abs(dxmin) - Abs(dxmax))..(x0 + 1 + Abs(dxmin) + Abs(dxmax)) :
                     \/ x0 - dxmin <= x /\ x <= x0 + dxmax
                     \/ x0 + dxmax <= x /\ x <= x0 - dxmin},
         rows |-> {y \in 0..y1 : y0 <= y}]

\* ImageDraw.line([(x0, y0), (x0, y1)], width=w) for w > 1 and y0 /= y1:
\* Pillow's ImagingDrawWideLine fills the quadrilateral whose sides lie
\* ROUND_DOWN(ratio_y * (w - 1) / 2) before and ROUND_UP(ratio_y * (w - 1) / 2)
\* after x0, ratio_y being the direction of the line (+1 downwards)
DrawVerticalLine(x0, y0, y1, w) ==
    LET ratio_y == Sign(y1 - y0)
        dxmin == RoundDown2((w - 1) * ratio_y)
        dxmax == RoundUp2((w - 1) * ratio_y)
    IN  [cols |-> {x \in (x0 - 1 - Abs(dxmin) - Abs(dxmax))..(x0 + 1 + Abs(dxmin) + Abs(dxmax)) :
                     \/ x0 - dxmin <= x /\ x <= x0 + dxmax
                     \/ x0 + dxmax <= x /\ x <= x0 - dxmin},
         rows |-> {y \in 0..y1 : y0 <= y}]

\* the sidebar is pasted whole, whatever the canvas height
MutPlaceNoCrop(sb, H) ==
    [y |-> (H - sb[2]) \div 2, box |-> <<0, 0, sb[1], sb[2]>>]

\* the vertical placement of the sidebar: centred, or cropped to the top H
\* rows when it is taller than the canvas
PlaceSidebar(sb, H) ==
    IF sb[2] > H
    THEN [y |-> 0, box |-> <<0, 0, sb[1], H>>]
    ELSE [y |-> (H - sb[2]) \div 2, box |-> <<0, 0, sb[1], sb[2]>>]

ComposeLayout(map, sb, W, H) ==
    LET divider_x == map[1]
        sidebar_x == divider_x + DividerWidth
        place == PlaceSidebar(sb, H)
    IN  [kind |-> "ok",
         size |-> <<W, H>>,
         map_at |-> <<0, 0>>,
         map_size |-> map,
         divider |-> DrawVerticalLine(divider_x, 0, H, DividerWidth),
         sidebar_at |-> <<sidebar_x, place.y>>,
         sidebar_box |-> place.box]

OldIdle == FitIdle /\ MetaIdle /\ WrapIdle

InitCompose ==
    /\ pc = "compose"
    /\ disp_width \in 1..MaxDispW
    /\ disp_height \in 1..MaxDispH
    /\ map_image \in (0..MaxMapW) \X (0..MaxMapH)
    /\ sidebar_image \in (0..MaxSideW) \X (0..MaxSideH)
    /\ canvas = None
    /\ OldIdle /\ QuantIdle /\ PipeIdle /\ CycleIdle /\ DecodeIdle /\ NetIdle

\* final_image = self._compose_layout(map_image, sidebar_image)
Compose ==
    /\ pc = "compose"
    /\ canvas' = ComposeLayout(map_image, sidebar_image, disp_width, disp_height)
    /\ pc' = "composed"
    /\ UNCHANGED <<disp_width, disp_height, map_image, sidebar_image,
                   fitVars, metaVars, wrapVars, quantVars, pipeVars, cycleVars,
                   decodeVars, netVars>>

NextCompose == Compose

SpecCompose == InitCompose /\ [][NextCompose]_vars

-----------------------------------------------------------------------------
(* ManulProcessor._quantize_to_palette.  An image is the sequence of its   *)
(* pixel values.  The palette Pillow's median cut builds is any set of at  *)
(* least one and at most `colors` entries, and every pixel is given one of *)
(* its entries; which ones is left open.                                   *)

\* the gray levels of the images of the model
Grays == {0, 128, 255}

\* the largest palette of a 'P' image, and the default of colors
PaletteLimit == 256

\* Image.convert('L') of a palette entry (v, v, v): Pillow's L24 weights
ToL(v) == (v * 19595 + v * 38470 + v * 7471 + 32768) \div 65536

\* the adaptive palettes of at most n entries
Palettes(n) == {pal \in SUBSET Grays : 1 <= Cardinality(pal) /\ Cardinality(pal) <= n}

\* convert('P', palette=ADAPTIVE) called without its colors argument
MutDefaultColors(img, colors, out) ==
    \E pal \in Palettes(PaletteLimit) :
        \E idx \in [1..Len(img) -> pal] :
            out = [kind |-> "ok", pixels |-> [i \in 1..Len(img) |-> ToL(idx[i])]]

\* out is a result of image.convert('P', palette=ADAPTIVE, colors=colors)
\* followed by convert('L'): ImagingQuantize rejects colors outside 1..256
QuantizeToPalette(img, colors, out) ==
    IF colors < 1 \/ colors > PaletteLimit
    THEN out = Raise("ValueError")
    ELSE \E pal \in Palettes(colors) :
            \E idx \in [1..Len(img) -> pal] :
                out = [kind |-> "ok", pixels |-> [i \in 1..Len(img) |-> ToL(idx[i])]]

Images(n) == UNION {[1..k -> Grays] : k \in 1..n}

InitQuant ==
    /\ pc = "quantize"
    /\ palette_colors \in 0..MaxColors
    /\ dithering \in BOOLEAN
    /\ pixels \in Images(MaxPixels)
    /\ quantized = None
    /\ OldIdle /\ ComposeIdle /\ PipeIdle /\ CycleIdle /\ DecodeIdle /\ NetIdle

\* einkify_manul step 3: image = self._quantize_to_palette(image); the
\* dither argument has no part in the ADAPTIVE conversion
Quantize ==
    /\ pc = "quantize"
    /\ QuantizeToPalette(pixels, palette_colors, quantized')
    /\ pc' = "quantized"
    /\ UNCHANGED <<palette_colors, dithering, pixels,
                   fitVars, metaVars, wrapVars, composeVars, pipeVars, cycleVars,
                   decodeVars, netVars>>

NextQuant == Quantize

SpecQuant == InitQuant /\ [][NextQuant]_vars

-----------------------------------------------------------------------------
(* ManulProcessor.einkify_manul, the six steps in order.  Its result comes *)
(* with the list of the stages that were entered; an exception ends the    *)
(* run in the stage that raised it.                                        *)

\* `if self.img_config['use_clahe']:` -- any value but a false one is CLAHE
Truthy(v) == v # "false"

\* steps 1 and 2: convert('L') unless the mode is 'L' already, then
\* _enhance_contrast; the size is kept
Normalize(img, pmode, clahe) ==
    [kind |-> "ok", size |-> img, converted |-> pmode # "L",
     contrast |-> IF Truthy(clahe) THEN "clahe" ELSE "boost"]

\* step 3 for the pipeline: only whether the quantizer accepts `colors`
QuantizeAccepts(colors) == ~(colors < 1 \/ colors > PaletteLimit)

\* the photo and the text pasted side by side at x = 0
MutCombineLeft(photo, text, sw) ==
    [kind |-> "ok",
     size |-> <<sw, photo[2] + text[2]>>,
     photo_at |-> <<0, 0>>, photo_size |-> photo,
     text_at |-> <<0, photo[2]>>, text_size |-> text]

\* step 6: the photo above the text, both at x_offset
Combine(photo, text, sw) ==
    LET total_height == photo[2] + text[2]
        x_offset == (sw - photo[1]) \div 2
    IN  IF sw < 0 \/ total_height < 0 THEN Raise("ValueError")
        ELSE [kind |-> "ok",
              size |-> <<sw, total_height>>,
              photo_at |-> <<x_offset, 0>>, photo_size |-> photo,
              text_at |-> <<x_offset, photo[2]>>, text_size |-> text]

\* steps 3 and 4 the other way round
MutStagesResizeFirst ==
    <<"normalize", "resize", "quantize", "render_text", "compose_sidebar">>

\* the stages of einkify_manul in the order of its steps
EinkifyStages ==
    <<"normalize", "quantize", "resize", "render_text", "compose_sidebar">>

\* step 6, reached with the photo f of step 4 and the text canvas t of
\* step 5, unless step 5 raised
EinkifyCombine(f, t, sw) ==
    IF t.kind # "ok"
    THEN [out |-> t, stages |-> SubSeq(EinkifyStages, 1, 4)]
    ELSE [out |-> Combine(f.size, t.size, sw), stages |-> EinkifyStages]

\* steps 5 and 6, reached with the photo f of step 4, unless step 4 raised
EinkifyRender(f, nm, loc, desc, sw, fs, ls) ==
    IF f.kind # "ok"
    THEN [out |-> f, stages |-> SubSeq(EinkifyStages, 1, 3)]
    ELSE CHOOSE r \in {EinkifyCombine(f, t, sw) :
                          t \in {RenderMetadata(nm, loc, desc, f.size[1], fs, ls)}} : TRUE

EinkifyManul(img, pmode, nm, loc, desc, sw, dh, colors, clahe, fs, ls) ==
    IF ~QuantizeAccepts(colors)
    THEN [out |-> Raise("ValueError"), stages |-> SubSeq(EinkifyStages, 1, 2)]
    ELSE CHOOSE r \in {EinkifyRender(f, nm, loc, desc, sw, fs, ls) :
                          f \in {ResizeToSidebar(Normalize(img, pmode, clahe).size,
                                                 None, sw, dh)}} : TRUE

PhotoModes == {"L", "RGB"}

\* true, false, and a value that names no contrast method
ContrastSettings == {"true", "false", "unknown"}

PipeColors == {0, 1, 2}

PipeHeights == {TextReserve, TextReserve + 2, TextReserve + 4}

PipeFontSizes == {2, 16}

PipeLocations == {<<>>, <<"a">>}

PipeDescriptions == {<<>>, <<"a", " ", "a">>}

InitPipe ==
    /\ pc = "einkify"
    /\ image \in (1..MaxPhotoW) \X (1..MaxPhotoH)
    /\ photo_mode \in PhotoModes
    /\ sidebar_width \in -1..MaxPipeSidebar
    /\ display_height \in PipeHeights
    /\ palette_colors \in PipeColors
    /\ dithering \in BOOLEAN
    /\ use_clahe \in ContrastSettings
    /\ font_size \in PipeFontSizes
    /\ line_spacing = 0
    /\ name = <<"T", "o", "m">>
    /\ location \in PipeLocations
    /\ description \in PipeDescriptions
    /\ stages = <<>>
    /\ sidebar = None
    /\ fitted = None /\ refitted = None
    /\ image_width = 0 /\ text_image = None
    /\ pixels = <<>> /\ quantized = None
    /\ WrapIdle /\ ComposeIdle /\ CycleIdle /\ DecodeIdle /\ NetIdle

\* sidebar_image = self.manul_processor.einkify_manul(image, name, location,
\* description)
Einkify ==
    /\ pc = "einkify"
    /\ \E r \in {EinkifyManul(image, photo_mode, name, location, description,
                              sidebar_width, display_height, palette_colors,
                              use_clahe, font_size, line_spacing)} :
           /\ sidebar' = r.out
           /\ stages' = stages \o r.stages
    /\ pc' = "einkified"
    /\ UNCHANGED <<photo_mode, use_clahe, fitVars, metaVars, wrapVars,
                   composeVars, quantVars, cycleVars, decodeVars, netVars>>

NextPipe == Einkify

SpecPipe == InitPipe /\ [][NextPipe]_vars

-----------------------------------------------------------------------------
(* ManulDisplay: one run of main() after another, each either              *)
(* refresh_display or rotate_manul, with the map cache file as the only    *)
(* state that outlives a run.  Maps are told apart by a number; the API    *)
(* returns a new one at every successful request.                          *)

\* force_refresh is not looked at
MutFetchIgnoresForce(force_refresh, ch, api_ok, can_open, can_save, new_map) ==
    IF ch.state = "fresh" /\ can_open
    THEN [map |-> ch.map, cache |-> ch, requests |-> 0, fetched |-> FALSE]
    ELSE IF ~api_ok
         THEN [map |-> IF ch.state # "missing" /\ can_open THEN ch.map ELSE NoMap,
               cache |-> ch, requests |-> 1, fetched |-> FALSE]
         ELSE [map |-> new_map,
               cache |-> IF can_save THEN [state |-> "fresh", map |-> new_map] ELSE ch,
               requests |-> 1, fetched |-> TRUE]

\* no fallback to the old cache file when the API fails
MutFetchNoFallback(force_refresh, ch, api_ok, can_open, can_save, new_map) ==
    IF ~force_refresh /\ ch.state = "fresh" /\ can_open
    THEN [map |-> ch.map, cache |-> ch, requests |-> 0, fetched |-> FALSE]
    ELSE IF ~api_ok
         THEN [map |-> NoMap, cache |-> ch, requests |-> 1, fetched |-> FALSE]
         ELSE [map |-> new_map,
               cache |-> IF can_save THEN [state |-> "fresh", map |-> new_map] ELSE ch,
               requests |-> 1, fetched |-> TRUE]

\* MapFetcher.fetch_map(force_refresh) on the cache ch; api_ok, can_open and
\* can_save are what the API request, Image.open(cache_path) and
\* image.save(cache_path) do
FetchMap(force_refresh, ch, api_ok, can_open, can_save, new_map) ==
    IF ~force_refresh /\ ch.state = "fresh" /\ can_open
    THEN [map |-> ch.map, cache |-> ch, requests |-> 0, fetched |-> FALSE]
    ELSE IF ~api_ok
         THEN [map |-> IF ch.state # "missing" /\ can_open THEN ch.map ELSE NoMap,
               cache |-> ch, requests |-> 1, fetched |-> FALSE]
         ELSE [map |-> new_map,
               cache |-> IF can_save THEN [state |-> "fresh", map |-> new_map] ELSE ch,
               requests |-> 1, fetched |-> TRUE]

Modes == {"refresh", "rotate"}

\* the size of the map fetch_map returns (map_config width and height)
MapSize == <<3, 2>>

\* what get_random_manul returns: None, a manul without image, a manul
Acquired == {"none", "no_image", "manul"}

CycleSidebarWidths == {0, 2}

InitCycle ==
    /\ pc = "idle"
    /\ CycleIdle
    /\ disp_width = 6 /\ disp_height = TextReserve + 2
    /\ display_height = TextReserve + 2
    /\ sidebar_width \in CycleSidebarWidths
    /\ map_image = <<0, 0>> /\ sidebar_image = <<0, 0>> /\ canvas = None
    /\ image = <<2, 3>> /\ fitted = None /\ refitted = None
    /\ photo_mode = "RGB" /\ use_clahe = "false"
    /\ palette_colors = 2 /\ dithering = TRUE
    /\ pixels = <<>> /\ quantized = None
    /\ font_size = 2 /\ line_spacing = 0 /\ image_width = 0
    /\ name = <<"T", "o", "m">> /\ location = <<"a">> /\ description = <<"a", " ", "a">>
    /\ text_image = None
    /\ stages = <<>> /\ sidebar = None
    /\ WrapIdle /\ DecodeIdle /\ NetIdle

cycleConfig ==
    <<disp_width, disp_height, fitVars, metaVars, wrapVars, quantVars,
      photo_mode, use_clahe, decodeVars, netVars>>

\* what _init_display does: it succeeds, the driver module cannot be
\* imported, the model is not supported, or EPD() is built and epd.init()
\* raises
InitOutcomes == {"ok", "import_error", "unsupported", "init_error"}

\* ManulDisplay.__init__(test_mode=t) when _init_display would end as io
Construct(t, io) ==
    IF t THEN [test_mode |-> TRUE, epd |-> "none"]
    ELSE [test_mode |-> io # "ok",
          epd |-> IF io = "ok" THEN "ready"
                  ELSE IF io = "init_error" THEN "created" ELSE "none"]

\* the method ends with `return value`: main goes on to display.cleanup()
Returned(value) == ret' = value /\ pc' = "cleanup"

\* main(): ManulDisplay(...), then display.rotate_manul() or
\* display.refresh_display(args.refresh_map)
StartRun ==
    /\ pc = "idle"
    /\ runs < MaxRuns
    /\ \E m \in Modes, f \in BOOLEAN, t \in BOOLEAN, io \in InitOutcomes :
        /\ mode' = m
        /\ force' = (m = "refresh" /\ f)
        /\ test_mode' = Construct(t, io).test_mode
        /\ epd' = Construct(t, io).epd
        /\ pc' = IF m = "refresh" THEN "fetch_map" ELSE "acquire"
    /\ driver_calls' = <<>> /\ files' = <<>> /\ fetch_env' = None
    /\ runs' = runs + 1
    /\ stages' = <<>> /\ sidebar' = None /\ canvas' = None
    /\ map_image' = <<0, 0>> /\ sidebar_image' = <<0, 0>>
    /\ map_id' = NoMap /\ frame_map' = NoMap
    /\ run_requests' = 0 /\ output' = "none" /\ ret' = "none"
    /\ UNCHANGED <<cache, next_map, api_requests, shown_map, cycleConfig>>

\* the run goes on without a map
MutAfterFetchGoesOn(m) ==
    ret' = ret /\ pc' = IF mode = "refresh" THEN "acquire" ELSE "compose_frame"

\* `if map_image is None: return False`, otherwise on to the next step
AfterFetch(m) ==
    IF m = NoMap
    THEN Returned("False")
    ELSE ret' = ret /\ pc' = IF mode = "refresh" THEN "acquire" ELSE "compose_frame"

\* map_image = self.map_fetcher.fetch_map(force_refresh=...), and the
\* return False that follows a None
FetchMapStep ==
    /\ pc = "fetch_map"
    /\ \E api_ok \in BOOLEAN, can_open \in BOOLEAN, can_save \in BOOLEAN :
        LET r == FetchMap(force, cache, api_ok, can_open, can_save, next_map) IN
        /\ map_id' = r.map
        /\ cache' = r.cache
        /\ api_requests' = api_requests + r.requests
        /\ run_requests' = run_requests + r.requests
        /\ next_map' = IF r.fetched THEN next_map + 1 ELSE next_map
        /\ map_image' = IF r.map = NoMap THEN map_image ELSE MapSize
        /\ fetch_env' = [kind |-> "met", api_ok |-> api_ok, can_open |-> can_open,
                         can_save |-> can_save, before |-> cache]
        /\ AfterFetch(r.map)
    /\ UNCHANGED <<mode, force, test_mode, frame_map, shown_map, output, runs,
                   epd, driver_calls, files,
                   stages, sidebar, sidebar_image, canvas, cycleConfig>>

\* manul_data = self.manul_scraper.get_random_manul(), and the return False
\* that follows a missing manul or image
AcquireStep ==
    /\ pc = "acquire"
    /\ stages' = Append(stages, "acquire")
    /\ \E got \in Acquired :
        IF got = "manul"
        THEN ret' = ret /\ pc' = "process"
        ELSE Returned("False")
    /\ UNCHANGED <<mode, force, test_mode, cache, next_map, api_requests, run_requests,
                   map_id, frame_map, shown_map, output, runs,
                   epd, driver_calls, files, fetch_env,
                   sidebar, map_image, sidebar_image, canvas, cycleConfig>>

\* sidebar_image = self.manul_processor.einkify_manul(...); an exception
\* leaves the method and ends the run
ProcessStep ==
    /\ pc = "process"
    /\ \E r \in {EinkifyManul(image, photo_mode, name, location, description,
                              sidebar_width, display_height, palette_colors,
                              use_clahe, font_size, line_spacing)} :
           /\ sidebar' = r.out
           /\ stages' = stages \o r.stages
           /\ IF r.out.kind = "ok"
              THEN /\ sidebar_image' = r.out.size
                   /\ ret' = ret
                   /\ pc' = IF mode = "refresh" THEN "compose_frame" ELSE "fetch_map"
              ELSE /\ sidebar_image' = sidebar_image
                   /\ ret' = "raised"
                   /\ pc' = "idle"
    /\ UNCHANGED <<mode, force, test_mode, cache, next_map, api_requests, run_requests,
                   map_id, frame_map, shown_map, output, runs,
                   epd, driver_calls, files, fetch_env,
                   map_image, canvas, cycleConfig>>

\* final_image = self._compose_layout(map_image, sidebar_image)
ComposeStep ==
    /\ pc = "compose_frame"
    /\ canvas' = ComposeLayout(map_image, sidebar_image, disp_width, disp_height)
    /\ frame_map' = map_id
    /\ stages' = Append(stages, "compose_frame")
    /\ pc' = "output"
    /\ UNCHANGED <<mode, force, test_mode, cache, next_map, api_requests, run_requests,
                   map_id, shown_map, output, ret, runs,
                   epd, driver_calls, files, fetch_env,
                   sidebar, map_image, sidebar_image, cycleConfig>>

\* the panel is driven whenever there is a handle, test mode or not
MutDisplayAlways(test, handle, panel_ok) ==
    IF handle = "none"
    THEN [output |-> "file", driver_calls |-> <<>>, files |-> <<"test_output.png">>]
    ELSE [output |-> "panel", driver_calls |-> <<"getbuffer", "display">>, files |-> <<>>]

\* step 5: final_image.save("test_output.png") in test mode, otherwise
\* _display_on_eink, which raises when epd is None or when the driver does
DisplayOrSave(test, handle, panel_ok) ==
    IF test
    THEN [output |-> "file", driver_calls |-> <<>>, files |-> <<"test_output.png">>]
    ELSE IF handle = "none"
    THEN [output |-> "none", driver_calls |-> <<>>, files |-> <<>>]
    ELSE IF panel_ok
    THEN [output |-> "panel", driver_calls |-> <<"getbuffer", "display">>, files |-> <<>>]
    ELSE [output |-> "none", driver_calls |-> <<"getbuffer">>, files |-> <<>>]

\* the save or the display call, then return True
OutputStep ==
    /\ pc = "output"
    /\ stages' = Append(stages, "output")
    /\ \E o \in {DisplayOrSave(test_mode, epd, panel_ok) : panel_ok \in BOOLEAN} :
        /\ output' = o.output
        /\ driver_calls' = driver_calls \o o.driver_calls
        /\ files' = files \o o.files
        /\ IF o.output = "none"
           THEN shown_map' = shown_map /\ ret' = "raised" /\ pc' = "idle"
           ELSE shown_map' = frame_map /\ Returned("True")
    /\ UNCHANGED <<mode, force, test_mode, cache, next_map, api_requests, run_requests,
                   map_id, frame_map, runs, epd, fetch_env,
                   sidebar, map_image, sidebar_image, canvas, cycleConfig>>

\* display.cleanup() in main, after the method returned
CleanupStep ==
    /\ pc = "cleanup"
    /\ driver_calls' = IF epd # "none" THEN Append(driver_calls, "sleep") ELSE driver_calls
    /\ pc' = "idle"
    /\ UNCHANGED <<mode, force, test_mode, cache, next_map, api_requests, run_requests,
                   map_id, frame_map, shown_map, output, ret, runs, epd, files, fetch_env,
                   stages, sidebar, map_image, sidebar_image, canvas, cycleConfig>>

\* between two runs the cached map grows older than refresh_interval_hours
CacheExpires ==
    /\ pc = "idle"
    /\ cache.state = "fresh"
    /\ cache' = [cache EXCEPT !.state = "stale"]
    /\ UNCHANGED <<pc, mode, force, test_mode, next_map, api_requests, run_requests,
                   map_id, frame_map, shown_map, output, ret, runs,
                   epd, driver_calls, files, fetch_env,
                   stages, sidebar, map_image, sidebar_image, canvas, cycleConfig>>

NextCycle ==
    \/ StartRun
    \/ FetchMapStep
    \/ AcquireStep
    \/ ProcessStep
    \/ ComposeStep
    \/ OutputStep
    \/ CleanupStep
    \/ CacheExpires

SpecCycle == InitCycle /\ [][NextCycle]_vars

-----------------------------------------------------------------------------
(* ManulScraper._decode_image_bytes.  Its result comes with the list of    *)
(* the programs and library calls it made and with what Pillow was given.  *)

ContentKinds == {"svg", "html", "webp", "other"}

\* a converter run: the binary is missing (subprocess.run raises
\* FileNotFoundError), it exits with a non-zero code, or it writes the PNG
ConverterOutcomes == {"missing", "fail", "ok"}

\* _open_png_bytes(png_path.read_bytes())
OpenPng(calls, can_open) ==
    [result |-> IF can_open THEN "image" ELSE "None",
     calls |-> Append(calls, "pillow"), pillow_input |-> "png"]

\* every exception that leaves the conversion block is caught and gives None
Caught(calls) == [result |-> "None", calls |-> calls, pillow_input |-> "none"]

DecodeImageBytes(kind, ff, dw, can_png, can_raw) ==
    IF kind \in {"svg", "html"} THEN Caught(<<>>)
    ELSE IF kind # "webp"
    THEN [result |-> IF can_raw THEN "image" ELSE "None",
          calls |-> <<"pillow">>, pillow_input |-> "raw"]
    ELSE IF ff = "missing" THEN Caught(<<"ffmpeg">>)
    ELSE IF ff = "ok" THEN OpenPng(<<"ffmpeg">>, can_png)
    ELSE IF dw = "ok" THEN OpenPng(<<"ffmpeg", "dwebp">>, can_png)
    ELSE Caught(<<"ffmpeg", "dwebp">>)

InitDecode ==
    /\ pc = "decode"
    /\ content_kind \in ContentKinds
    /\ ffmpeg \in ConverterOutcomes
    /\ dwebp \in ConverterOutcomes
    /\ png_ok \in BOOLEAN
    /\ raw_ok \in BOOLEAN
    /\ decoded = None
    /\ OldIdle /\ ComposeIdle /\ QuantIdle /\ PipeIdle /\ CycleIdle /\ NetIdle

\* img = self._decode_image_bytes(img_url, content, content_type)
Decode ==
    /\ pc = "decode"
    /\ decoded' = DecodeImageBytes(content_kind, ffmpeg, dwebp, png_ok, raw_ok)
    /\ pc' = "decoded"
    /\ UNCHANGED <<content_kind, ffmpeg, dwebp, png_ok, raw_ok,
                   fitVars, metaVars, wrapVars, composeVars, quantVars, pipeVars,
                   cycleVars, netVars>>

NextDecode == Decode

SpecDecode == InitDecode /\ [][NextDecode]_vars

-----------------------------------------------------------------------------
(* ManulScraper._get.  The requests are numbered from 1; what the k-th     *)
(* request would meet is attempts[k].  The result comes with the list of   *)
(* the requests and sleeps made, in order.                                 *)

\* session.get succeeds and the status is good; raise_for_status raises;
\* session.get raises
RequestOutcomes == {"ok", "http_error", "exception"}

\* a sleep after every failed request, the last one too
MutSleepAlways(attempt, retries) == <<"sleep">>

\* `if attempt < self.retry_attempts: time.sleep(self.retry_delay)`
SleepAfter(attempt, retries) == IF attempt < retries THEN <<"sleep">> ELSE <<>>

\* the for loop of _get from `attempt` on
RECURSIVE GetLoop(_, _, _, _)
GetLoop(attempt, retries, outcomes, events) ==
    IF attempt > retries
    THEN [kind |-> "None", events |-> events]
    ELSE IF outcomes[attempt] = "ok"
    THEN [kind |-> "response", request |-> attempt,
          events |-> Append(events, "request")]
    ELSE GetLoop(attempt + 1, retries, outcomes,
                 Append(events, "request") \o SleepAfter(attempt, retries))

Get(retries, outcomes) == GetLoop(1, retries, outcomes, <<>>)

InitGet ==
    /\ pc = "get"
    /\ retry_attempts \in -1..MaxAttempts
    /\ attempts \in [1..MaxAttempts -> RequestOutcomes]
    /\ response = None
    /\ ScrapeIdle
    /\ OldIdle /\ ComposeIdle /\ QuantIdle /\ PipeIdle /\ CycleIdle /\ DecodeIdle

\* page = self._get(url)
DoGet ==
    /\ pc = "get"
    /\ response' = Get(retry_attempts, attempts)
    /\ pc' = "got"
    /\ UNCHANGED <<retry_attempts, attempts, scrapeVars,
                   fitVars, metaVars, wrapVars, composeVars, quantVars, pipeVars,
                   cycleVars, decodeVars>>

NextGet == DoGet

SpecGet == InitGet /\ [][NextGet]_vars

-----------------------------------------------------------------------------
(* ManulScraper.get_random_manul.  URLs are numbered 1..manul_urls;        *)
(* picks[i] is the URL random.choice returns in iteration i, pages[u] what *)
(* trying URL u ends in.                                                   *)

\* the cap on the number of tries
TryLimit == 25

Min(a, b) == IF a < b THEN a ELSE b

\* the page cannot be fetched; the page or its image is rejected; a manul
\* with a decoded image is built
PageOutcomes == {"page_error", "rejected", "manul"}

\* the for loop of get_random_manul from iteration i on
RECURSIVE ScrapeLoop(_, _, _, _, _, _)
ScrapeLoop(i, max_tries, choice, outcome, tried, fetched) ==
    IF i > max_tries
    THEN [kind |-> "None", tried |-> tried, fetched |-> fetched, iterations |-> i - 1]
    ELSE LET url == choice[i] IN
         IF url \in tried
         THEN ScrapeLoop(i + 1, max_tries, choice, outcome, tried, fetched)
         ELSE IF outcome[url] = "manul"
         THEN [kind |-> "ManulData", source_url |-> url, image |-> "decoded",
               tried |-> tried \cup {url}, fetched |-> Append(fetched, url),
               iterations |-> i]
         ELSE ScrapeLoop(i + 1, max_tries, choice, outcome,
                         tried \cup {url}, Append(fetched, url))

GetRandomManul(n, choice, outcome) ==
    ScrapeLoop(1, Min(TryLimit, n), choice, outcome, {}, <<>>)

InitScrape ==
    /\ pc = "scrape"
    /\ manul_urls \in 1..MaxUrls
    /\ picks \in [1..Min(TryLimit, manul_urls) -> 1..manul_urls]
    /\ pages \in [1..manul_urls -> PageOutcomes]
    /\ scraped = None
    /\ GetIdle
    /\ OldIdle /\ ComposeIdle /\ QuantIdle /\ PipeIdle /\ CycleIdle /\ DecodeIdle

\* manul_data = self.manul_scraper.get_random_manul()
Scrape ==
    /\ pc = "scrape"
    /\ scraped' = GetRandomManul(manul_urls, picks, pages)
    /\ pc' = "scraped"
    /\ UNCHANGED <<manul_urls, picks, pages, getVars,
                   fitVars, metaVars, wrapVars, composeVars, quantVars, pipeVars,
                   cycleVars, decodeVars>>

NextScrape == Scrape

SpecScrape == InitScrape /\ [][NextScrape]_vars

-----------------------------------------------------------------------------
(* Claims about the Geometry Fitter, checked under SpecFit *)

max_height == display_height - TextReserve

FloorDiv(p, q) == p \div q

Range(f) == {f[i] : i \in DOMAIN f}

\* p / q rounded to the nearest integer, halves to the even neighbour
\* (Python's round), for p >= 0 and q > 0
RoundHalfEven(p, q) ==
    LET f == p \div q
        r2 == 2 * (p % q)
    IN IF r2 < q THEN f
       ELSE IF r2 > q THEN f + 1
       ELSE IF f % 2 = 0 THEN f ELSE f + 1

\* p / q rounded to the nearest integer, halves up
RoundHalfUp(p, q) == (2 * p + q) \div (2 * q)

\* the fitter returned an image without taking the height-cap branch
Uncapped ==
    /\ fitted.kind = "ok"
    /\ ~fitted.capped
    /\ image[1] > 0
    /\ sidebar_width > 0

\* the fitter returned an image from the height-cap branch
Capped ==
    /\ fitted.kind = "ok"
    /\ fitted.capped
    /\ image[1] > 0
    /\ sidebar_width > 0

\* C1 as stated: without the height cap the output is exactly
\* (W1, round(H0 * W1 / W0)).
C1_Original ==
    Uncapped =>
        fitted.size = <<sidebar_width, RoundHalfEven(image[2] * sidebar_width, image[1])>>

\* C1 amended: without the height cap the output width is W1 exactly and the
\* output height is H0 * W1 / W0 truncated: its floor, or one less than the
\* floor in some cases where W0 divides H0 * W1 (the double a/b was rounded
\* down); never more than the floor.
C1_Truncated ==
    Uncapped =>
        LET fl == FloorDiv(image[2] * sidebar_width, image[1]) IN
        /\ fitted.size[1] = sidebar_width
        /\ fitted.size[2] \in {fl - 1, fl}
        /\ (image[2] * sidebar_width) % image[1] # 0 => fitted.size[2] = fl

\* the uncapped branch has truncated a fraction of at least one half
C1_Witness ==
    /\ Uncapped
    /\ 2 * ((image[2] * sidebar_width) % image[1]) >= image[1]
    /\ fitted.size[2] = FloorDiv(image[2] * sidebar_width, image[1])

\* C2 as stated: with the height cap the output height is max_height exactly,
\* the output width is target_width * max_height / fitted_height truncated,
\* and the width never exceeds the target width.
C2_Original ==
    Capped =>
        /\ fitted.size[2] = max_height
        /\ fitted.size[1] = FloorDiv(sidebar_width * max_height, fitted.fitted_height)
        /\ fitted.size[1] <= sidebar_width

\* C3: without the height cap the output height is within 1 pixel of
\* round(H0 * W1 / W0), whichever way halves are rounded.
C3_AspectTolerance ==
    Uncapped =>
        /\ Abs(fitted.size[2] - RoundHalfEven(image[2] * sidebar_width, image[1])) <= 1
        /\ Abs(fitted.size[2] - RoundHalfUp(image[2] * sidebar_width, image[1])) <= 1

\* the uncapped branch returned a height that is 1 away from the rounded one
C3_Witness ==
    /\ Uncapped
    /\ Abs(fitted.size[2] - RoundHalfEven(image[2] * sidebar_width, image[1])) = 1

\* C4 as stated: an image already at the target width with height <= max
\* height keeps its size, and the fitter applied to its own output does not
\* change the dimensions.
C4_Original ==
    /\ (fitted.kind = "ok" /\ image[1] = sidebar_width /\ image[2] <= max_height)
          => fitted.size = image
    /\ pc = "refitted" => (refitted.kind = "ok" /\ refitted.size = fitted.size)

\* C5: a target width <= 0 or a source width <= 0 makes the fitter raise; it
\* never returns an image.
C5_BadWidthRaises ==
    (pc # "fit" /\ (sidebar_width <= 0 \/ image[1] <= 0)) =>
        fitted.kind \in {"ZeroDivisionError", "ValueError"}

\* a non-positive target width on a real image was refused by the resize
C5_Witness ==
    /\ pc = "fitted"
    /\ sidebar_width <= 0
    /\ image[1] > 0 /\ image[2] > 0
    /\ fitted.kind = "ValueError"

\* C27 as stated: for an image of width and height >= 1, a sidebar width >= 1
\* and a maximum height >= 1, the size _resize_to_sidebar computes has width
\* and height >= 1, so the resize is carried out.
C27_Original ==
    (/\ pc = "fitted"
     /\ image[1] >= 1 /\ image[2] >= 1
     /\ sidebar_width >= 1 /\ max_height >= 1) =>
        /\ fitted.kind = "ok"
        /\ fitted.size[1] >= 1 /\ fitted.size[2] >= 1

-----------------------------------------------------------------------------
(* Claims about the Metadata Text Renderer, checked under SpecMeta *)

Rendered == text_image.kind = "ok"

LineCount ==
    Len(text_image.name_lines) + Len(text_image.location_lines)
        + Len(text_image.description_lines)

\* the fixed top/bottom padding of the cropped canvas
FixedPadding == TopPadding + NameGap + BottomPadding

\* C6 as stated: the canvas is as wide as the width parameter and as high as
\* its lines: (font height + line spacing) per rendered line plus the fixed
\* padding, never a fixed-height canvas.
C6_Original ==
    Rendered =>
        /\ text_image.size[1] = image_width
        /\ text_image.size[2] = LineCount * (font_size + line_spacing) + FixedPadding

char_width == image_width \div (font_size \div 2)

\* C7: one name line, at most 2 location lines, at most 4 description lines,
\* at most 7 lines in all; the lines drawn are the first lines of the wrapped
\* text, unaltered, and the lines beyond the cap are dropped.
C7_LineCaps ==
    Rendered =>
        /\ text_image.name_lines = <<name>>
        /\ Len(text_image.location_lines) <= 2
        /\ Len(text_image.description_lines) <= 4
        /\ LineCount <= 7
        /\ \A i \in 1..Len(text_image.location_lines) :
              text_image.location_lines[i] = Wrap(LocationPrefix \o location, char_width).lines[i]
        /\ \A i \in 1..Len(text_image.description_lines) :
              text_image.description_lines[i] = Wrap(description, char_width).lines[i]

\* both caps were hit and description lines were dropped
C7_Witness ==
    /\ Rendered
    /\ Len(text_image.location_lines) = 2
    /\ Len(text_image.description_lines) = 4
    /\ Len(Wrap(description, char_width).lines) > 4
    /\ Len(Wrap(LocationPrefix \o location, char_width).lines) > 2

\* C8 as stated: an empty or "Unknown" location and an empty description add
\* no line; with both skipped the canvas holds the name line only and is
\* strictly lower than any canvas with a location or description line.
C8_Original ==
    Rendered =>
        LET bare == RenderMetadata(name, <<>>, <<>>, image_width, font_size, line_spacing) IN
        /\ location \in {<<>>, Unknown} => text_image.location_lines = <<>>
        /\ description = <<>> => text_image.description_lines = <<>>
        /\ LineCount = 1 => text_image.size = bare.size
        /\ LineCount > 1 => bare.size[2] < text_image.size[2]

\* a chunk of a line is a whole word of the text: it starts and ends where
\* the word does
WholeWord(text, chunk) ==
    \/ IsBlank(text, chunk)
    \/ /\ chunk[1] = 1 \/ IsSpace(text[chunk[1] - 1])
       /\ chunk[1] + chunk[2] - 1 = Len(text) \/ IsSpace(text[chunk[1] + chunk[2]])

WholeWords(text, lines) ==
    \A i \in 1..Len(lines) : \A j \in 1..Len(lines[i]) : WholeWord(text, lines[i][j])

\* C10 as stated: no wrapping path splits a word: every word of every
\* location and description line of _render_metadata, and of every line of
\* wrap_text, is a whole word of the input.
C10_Original ==
    /\ Rendered =>
          /\ WholeWords(text_image.location_text, text_image.location_lines)
          /\ WholeWords(text_image.description_text, text_image.description_lines)
    /\ pc = "wrapped" =>
          \A i \in 1..Len(wlines) :
              \A w \in Range(SplitWords(wlines[i], 1, <<>>)) :
                  w \in Range(SplitWords(wtext, 1, <<>>))

\* the number of characters of a line of chunks
RECURSIVE LineLen(_)
LineLen(line) == IF line = <<>> THEN 0 ELSE Head(line)[2] + LineLen(Tail(line))

\* the pixel width the font gives a drawn line
MeasuredWidth(line) == LineLen(line) * FontAdvance(font_size)

\* C11 as stated: every location and description line that is drawn has a
\* measured pixel width (advance of the font times its length) within the
\* canvas width, unless the line is a single word.
C11_Original ==
    Rendered =>
        \A lines \in {text_image.location_lines, text_image.description_lines} :
            \A i \in 1..Len(lines) :
                MeasuredWidth(lines[i]) <= image_width \/ Len(lines[i]) = 1

-----------------------------------------------------------------------------
(* Claims about _compose_layout, checked under SpecCompose *)

Composed == canvas.kind = "ok"

\* the columns a pasted image of size sz occupies when its left edge is at x
Columns(x, sz) == x..(x + sz[1] - 1)

\* the canvas rows a pasted box occupies when its top edge is at y
PastedRows(y, box) == {y + r : r \in box[2]..(box[4] - 1)}

\* C13: the canvas has the display's width and height, the map's top-left is
\* at (0, 0), the divider paints exactly the DividerWidth columns that start
\* at x = map width, none of them a column of the map or of the sidebar, and
\* the sidebar's left edge is at x = map width + DividerWidth.
C13_HorizontalPlacement ==
    Composed =>
        /\ canvas.size = <<disp_width, disp_height>>
        /\ canvas.map_at = <<0, 0>>
        /\ canvas.divider.cols = map_image[1]..(map_image[1] + DividerWidth - 1)
        /\ canvas.divider.cols \cap Columns(0, map_image) = {}
        /\ canvas.divider.cols \cap Columns(canvas.sidebar_at[1], sidebar_image) = {}
        /\ canvas.sidebar_at[1] = map_image[1] + DividerWidth

C13_Witness ==
    /\ Composed
    /\ map_image[1] >= 1 /\ sidebar_image[1] >= 1 /\ disp_height >= 1
    /\ map_image[1] + DividerWidth + sidebar_image[1] = disp_width

\* C14: a sidebar of height h on a canvas of height H is pasted whole at
\* y = (H - h) \div 2 when h <= H, and is cropped to its rows 0..H-1 and
\* pasted at y = 0 when h > H; the pasted rows are rows of the canvas.
C14_VerticalPlacement ==
    Composed =>
        LET h == sidebar_image[2]
            H == disp_height
        IN  /\ h <= H =>
                /\ canvas.sidebar_at[2] = (H - h) \div 2
                /\ canvas.sidebar_box = <<0, 0, sidebar_image[1], h>>
            /\ h > H =>
                /\ canvas.sidebar_at[2] = 0
                /\ canvas.sidebar_box = <<0, 0, sidebar_image[1], H>>
            /\ PastedRows(canvas.sidebar_at[2], canvas.sidebar_box) \subseteq 0..(H - 1)

C14_Witness ==
    /\ Composed
    /\ disp_height >= 1
    /\ sidebar_image[2] > disp_height
    /\ canvas.sidebar_box[4] = disp_height

\* C17 as stated, for _compose_layout: it either returns a canvas of width
\* and height >= 1 or signals an error, and it signals an error when an
\* image it receives has a zero dimension.
C17_Original ==
    Composed =>
        /\ canvas.size[1] >= 1 /\ canvas.size[2] >= 1
        /\ map_image[1] >= 1 /\ map_image[2] >= 1
        /\ sidebar_image[1] >= 1 /\ sidebar_image[2] >= 1

-----------------------------------------------------------------------------
(* Claims about _quantize_to_palette, checked under SpecQuant *)

\* C15: for a palette size N >= 2 and either dithering setting, the image
\* the quantizer returns has at most N distinct pixel values.
C15_PaletteBound ==
    (quantized.kind = "ok" /\ palette_colors >= 2) =>
        Cardinality(Range(quantized.pixels)) <= palette_colors

C15_Witness ==
    /\ quantized.kind = "ok"
    /\ palette_colors = 2
    /\ dithering
    /\ Cardinality(Range(pixels)) = 3
    /\ Cardinality(Range(quantized.pixels)) = 2

-----------------------------------------------------------------------------
(* Claims about einkify_manul, checked under SpecPipe *)

Einkified == pc = "einkified"

\* the photo as the fitter returns it and the text canvas as the renderer
\* returns it, for the inputs of the run
FittedPhoto == ResizeToSidebar(image, None, sidebar_width, display_height)

TextCanvas ==
    RenderMetadata(name, location, description, FittedPhoto.size[1],
                   font_size, line_spacing)

\* C12: the sidebar canvas einkify_manul returns is sidebar_width wide and
\* exactly fitted photo height + text canvas height high; the text canvas is
\* pasted at y = photo height, at the same x as the photo, and the photo's
\* left and right padding differ by at most 1.
C12_SidebarDimensions ==
    (Einkified /\ sidebar.kind = "ok") =>
        LET left == sidebar.photo_at[1]
            right == sidebar_width - FittedPhoto.size[1] - left
        IN  /\ sidebar.photo_size = FittedPhoto.size
            /\ sidebar.text_size = TextCanvas.size
            /\ sidebar.size = <<sidebar_width, FittedPhoto.size[2] + TextCanvas.size[2]>>
            /\ sidebar.photo_at[2] = 0
            /\ sidebar.text_at = <<left, FittedPhoto.size[2]>>
            /\ left >= 0 /\ right >= 0
            /\ Abs(left - right) <= 1

C12_Witness ==
    /\ Einkified /\ sidebar.kind = "ok"
    /\ sidebar.photo_size[1] < sidebar_width
    /\ sidebar.photo_at[1] >= 1
    /\ sidebar_width - sidebar.photo_size[1] - sidebar.photo_at[1] = sidebar.photo_at[1] + 1
    /\ location # <<>> /\ description # <<>>

InvalidConfig ==
    \/ palette_colors < 2
    \/ sidebar_width <= 0
    \/ use_clahe \notin {"true", "false"}

\* C16 as stated: with an invalid configuration (palette size < 2, target
\* width <= 0, unknown contrast setting) the run ends in an error and no
\* pipeline stage was entered before it.
C16_Original ==
    (Einkified /\ InvalidConfig) => (sidebar.kind # "ok" /\ stages = <<>>)

-----------------------------------------------------------------------------
(* Claims about the runs of ManulDisplay, checked under SpecCycle *)

StageOrder ==
    <<"acquire", "normalize", "quantize", "resize", "render_text",
      "compose_sidebar", "compose_frame", "output">>

IsPrefix(sq, whole) == Len(sq) <= Len(whole) /\ sq = SubSeq(whole, 1, Len(sq))

\* C18: in every run the stages are entered in the order acquire, normalize,
\* quantize, resize, render text, compose sidebar, compose frame, output, none
\* twice and none before its predecessor, and a run that returns True has
\* gone through every one of them exactly once.
C18_StageOrder ==
    /\ IsPrefix(stages, StageOrder)
    /\ ret = "True" => stages = StageOrder

C18_Witness ==
    /\ mode = "refresh" /\ ret = "True"
    /\ stages = StageOrder
    /\ output = "panel"

\* C19 as stated: a run of rotate_manul makes no map request to the API,
\* whatever the state of the cache, and the frame it composes holds the map
\* of the last frame that was output.
C19_Original ==
    mode = "rotate" =>
        /\ run_requests = 0
        /\ pc = "output" => frame_map = shown_map

Fetched == fetch_env.kind = "met"

\* the cache file existed and could be opened when fetch_map ran
Loadable == fetch_env.before.state # "missing" /\ fetch_env.can_open

\* C21: in test mode, requested or entered after a failed display
\* initialization, a run saves the frame to a file and makes no getbuffer or
\* display call on the driver; outside test mode it drives the panel and
\* writes no file.
C21_TestModeOutput ==
    /\ test_mode =>
        /\ "getbuffer" \notin Range(driver_calls) /\ "display" \notin Range(driver_calls)
        /\ ret = "True" => (output = "file" /\ files = <<"test_output.png">>)
    /\ ~test_mode =>
        /\ files = <<>>
        /\ ret = "True" =>
            (output = "panel" /\ SubSeq(driver_calls, 1, 2) = <<"getbuffer", "display">>)

\* test mode entered by fallback, with a driver object that was built
C21_Witness ==
    /\ test_mode /\ epd = "created"
    /\ ret = "True" /\ output = "file"
    /\ mode = "rotate"

\* C22: with force_refresh false and a cached map that is fresh and opens,
\* fetch_map returns the cached map and makes no API request; with
\* force_refresh true it makes an API request whatever the cache.
C22_CacheUse ==
    Fetched =>
        /\ (~force /\ fetch_env.before.state = "fresh" /\ fetch_env.can_open) =>
              (run_requests = 0 /\ map_id = fetch_env.before.map)
        /\ force => run_requests = 1

C22_Witness ==
    /\ Fetched /\ ~force
    /\ fetch_env.before.state = "fresh" /\ fetch_env.can_open
    /\ map_id = fetch_env.before.map /\ map_id # NoMap
    /\ runs = 2 /\ api_requests = 1

\* C23: when the API request fails, fetch_map returns the cached map, stale
\* or not, whenever the cache file exists and opens, and None exactly when it
\* does not; when the request succeeds and the save to the cache fails, the
\* new map is returned all the same.
C23_FailureFallback ==
    (Fetched /\ run_requests = 1) =>
        /\ ~fetch_env.api_ok =>
              /\ Loadable => map_id = fetch_env.before.map
              /\ map_id = NoMap <=> ~Loadable
        /\ (fetch_env.api_ok /\ ~fetch_env.can_save) =>
              (map_id = next_map - 1 /\ map_id # NoMap)

C23_Witness ==
    /\ Fetched /\ run_requests = 1 /\ ~fetch_env.api_ok
    /\ fetch_env.before.state = "stale" /\ fetch_env.can_open
    /\ map_id = fetch_env.before.map /\ map_id # NoMap

\* C26: in a refresh run a frame is output only if the map fetch and the
\* manul fetch both succeeded; a failed map fetch returns False with no manul
\* fetched, no image processed and no output; a failed manul fetch returns
\* False with no output; True is returned only after the output step.
C26_AbortOrdering ==
    mode = "refresh" =>
        /\ output # "none" =>
              (map_id # NoMap /\ sidebar.kind = "ok" /\ IsPrefix(<<"acquire">>, stages))
        /\ (Fetched /\ map_id = NoMap) =>
              (ret = "False" /\ stages = <<>> /\ sidebar = None /\ output = "none"
               /\ files = <<>> /\ "display" \notin Range(driver_calls))
        /\ (ret = "False" /\ map_id # NoMap) =>
              (stages = <<"acquire">> /\ sidebar = None /\ output = "none"
               /\ files = <<>> /\ "display" \notin Range(driver_calls))
        /\ ret = "True" =>
              (stages # <<>> /\ stages[Len(stages)] = "output" /\ output # "none")

\* the map fetch of a refresh run failed and the run is over
C26_Witness ==
    /\ mode = "refresh" /\ Fetched /\ map_id = NoMap
    /\ ret = "False" /\ pc = "idle"
    /\ fetch_env.before.state = "stale" /\ ~fetch_env.can_open

\* C28 as stated: epd is not None only if the display was initialized
\* successfully, so the driver's sleep is called only on an initialized
\* display.
C28_Original ==
    /\ epd # "none" => epd = "ready"
    /\ "sleep" \in Range(driver_calls) => epd = "ready"

-----------------------------------------------------------------------------
(* Claims about _decode_image_bytes, checked under SpecDecode *)

\* C20 as stated: for WebP content Pillow is never given the WebP bytes,
\* ffmpeg is run first, dwebp is run whenever ffmpeg produced no PNG (a
\* missing ffmpeg included), Pillow opens only the converted PNG, and None is
\* returned only if both converters fail or the PNG cannot be opened.
C20_Original ==
    (pc = "decoded" /\ content_kind = "webp") =>
        /\ decoded.pillow_input \in {"none", "png"}
        /\ decoded.calls # <<>> /\ decoded.calls[1] = "ffmpeg"
        /\ ffmpeg # "ok" => \E i \in 1..Len(decoded.calls) : decoded.calls[i] = "dwebp"
        /\ decoded.result = "None" => ((ffmpeg # "ok" /\ dwebp # "ok") \/ ~png_ok)

-----------------------------------------------------------------------------
(* Claims about _get, checked under SpecGet *)

\* the number of times e occurs in events
RECURSIVE Count(_, _)
Count(events, e) ==
    IF events = <<>> THEN 0
    ELSE (IF Head(events) = e THEN 1 ELSE 0) + Count(Tail(events), e)

\* the requests of the call that succeed, among those it may make
Successes == {k \in 1..retry_attempts : attempts[k] = "ok"}

\* C24: a call of _get makes at most retry_attempts requests; it returns the
\* response of the first request that succeeds and makes no request after
\* it; it sleeps between two consecutive requests and never after the last;
\* it returns None exactly when all retry_attempts requests failed or
\* retry_attempts <= 0.
C24_BoundedRetry ==
    pc = "got" =>
        LET requests == Count(response.events, "request")
            sleeps == Count(response.events, "sleep")
        IN  /\ requests <= (IF retry_attempts > 0 THEN retry_attempts ELSE 0)
            /\ response.kind = "None" <=> Successes = {}
            /\ response.kind = "response" =>
                  /\ response.request \in Successes
                  /\ \A k \in Successes : response.request <= k
                  /\ requests = response.request
            /\ response.kind = "None" => requests = (IF retry_attempts > 0 THEN retry_attempts ELSE 0)
            /\ sleeps = (IF requests > 0 THEN requests - 1 ELSE 0)
            /\ \A i \in 1..Len(response.events) :
                  response.events[i] = "sleep" =>
                      (i > 1 /\ i < Len(response.events)
                       /\ response.events[i - 1] = "request" /\ response.events[i + 1] = "request")

\* every request fails, with a sleep between them and none at the end
C24_Witness ==
    /\ pc = "got" /\ response.kind = "None"
    /\ retry_attempts = 3
    /\ response.events = <<"request", "sleep", "request", "sleep", "request">>

-----------------------------------------------------------------------------
(* Claims about get_random_manul, checked under SpecScrape *)

\* C25 as stated: when get_random_manul returns None, max_tries =
\* min(25, number of URLs) distinct URLs have been fetched and rejected; no
\* URL's page is fetched twice in one call; a ManulData it returns carries a
\* decoded image.
C25_Original ==
    pc = "scraped" =>
        /\ scraped.kind = "None" =>
              Cardinality(scraped.tried) = Min(TryLimit, manul_urls)
        /\ \A i, j \in 1..Len(scraped.fetched) :
              i # j => scraped.fetched[i] # scraped.fetched[j]
        /\ scraped.kind = "ManulData" => scraped.image = "decoded"

-----------------------------------------------------------------------------
(* Claims about wrap_text, checked under SpecWrap *)

HasSpace(str) == \E i \in 1..Len(str) : IsSpace(str[i])

\* C9: for a positive max width every line of wrap_text measures at most
\* max width, unless the line is a single word wider than max width.
C9_WidthBound ==
    (pc = "wrapped" /\ max_width > 0) =>
        \A i \in 1..Len(wlines) :
            \/ GetLength(wlines[i]) <= max_width
            \/ ~HasSpace(wlines[i]) /\ wlines[i] \in Range(SplitWords(wtext, 1, <<>>))

\* a line of two words fills the width exactly and a too wide word stands alone
C9_Witness ==
    /\ pc = "wrapped"
    /\ max_width > 0
    /\ \E i \in 1..Len(wlines) : HasSpace(wlines[i]) /\ GetLength(wlines[i]) = max_width
    /\ \E i \in 1..Len(wlines) : GetLength(wlines[i]) > max_width

\* the words of all the lines, in order
RECURSIVE WordsOf(_)
WordsOf(lines) ==
    IF lines = <<>> THEN <<>>
    ELSE SplitWords(Head(lines), 1, <<>>) \o WordsOf(Tail(lines))

\* C29: the words of the lines wrap_text returns, in order, are exactly the
\* words of the text; every line is its words joined by single spaces; no
\* line is empty unless the text has no words, and then the result is one
\* empty line; and each line followed by a space and the first word of the
\* next line is wider than max width.
C29_LosesNothing ==
    pc = "wrapped" =>
        LET words == SplitWords(wtext, 1, <<>>) IN
        /\ WordsOf(wlines) = words
        /\ \A i \in 1..Len(wlines) : wlines[i] = Join(SplitWords(wlines[i], 1, <<>>))
        /\ words = <<>> => wlines = <<<<>>>>
        /\ words # <<>> => \A i \in 1..Len(wlines) : wlines[i] # <<>>
        /\ \A i \in 1..(Len(wlines) - 1) :
              GetLength(wlines[i] \o <<" ">> \o SplitWords(wlines[i + 1], 1, <<>>)[1])
                  > max_width

\* two lines, one of them of two words, from a text with repeated spaces
C29_Witness ==
    /\ pc = "wrapped"
    /\ Len(wlines) >= 2
    /\ \E i \in 1..Len(wlines) : HasSpace(wlines[i])
    /\ Len(wtext) > Len(Join(SplitWords(wtext, 1, <<>>)))

====
